---------------------------- MODULE Spec2Model ----------------------------
(***************************************************************************)
(* State-machine model of the drama monitor in src/index.ts: one run loads *)
(* config.json, reads the ledger drama-list.md, fetches every source,      *)
(* keeps the titles the ledger does not know, appends them to the ledger   *)
(* and notifies Telegram.  Several runs follow each other on one ledger.   *)
(*                                                                         *)
(* A string is a sequence of one-character strings, so that split, trim,   *)
(* startsWith and replace are computed as the code computes them.          *)
(***************************************************************************)
EXTENDS Integers, Sequences, FiniteSets, TLC

(***************************************************************************)
(* Bounds of the model.                                                    *)
(***************************************************************************)
MaxRuns == 2
MaxTitles == 2
MaxChats == 2

(***************************************************************************)
(* Strings.                                                                *)
(***************************************************************************)
NL == "\n"

\* String.prototype.trim: white space and line terminators count.
IsSpace(c) == c \in {" ", NL}

RECURSIVE TrimStart(_)
TrimStart(s) ==
    IF s = <<>> THEN <<>>
    ELSE IF IsSpace(Head(s)) THEN TrimStart(Tail(s)) ELSE s

RECURSIVE TrimEnd(_)
TrimEnd(s) ==
    IF s = <<>> THEN <<>>
    ELSE IF IsSpace(s[Len(s)]) THEN TrimEnd(SubSeq(s, 1, Len(s) - 1)) ELSE s

Trim(s) == TrimEnd(TrimStart(s))

StartsWith(s, p) == Len(s) >= Len(p) /\ SubSeq(s, 1, Len(p)) = p

\* content.split('\n'): the pieces between the line feeds, at least one.
RECURSIVE SplitFrom(_, _, _)
SplitFrom(s, i, cur) ==
    IF i > Len(s) THEN <<cur>>
    ELSE IF s[i] = NL THEN <<cur>> \o SplitFrom(s, i + 1, <<>>)
    ELSE SplitFrom(s, i + 1, Append(cur, s[i]))

SplitLines(s) == SplitFrom(s, 1, <<>>)

\* line.replace(/^- /g, ''): the pattern is anchored, so at most one match.
StripListMarker(line) ==
    IF StartsWith(line, <<"-", " ">>) THEN SubSeq(line, 3, Len(line)) ELSE line

\* The filter of getExistingDramas on a trimmed line.
IsDataLine(line) ==
    /\ line # <<>>
    /\ ~StartsWith(line, <<"#", "#">>)
    /\ ~StartsWith(line, <<"#", " ">>)

\* The body of getExistingDramas once the file is read: Set of the item names.
ParseLedger(content) ==
    LET lines == SplitLines(content)
        trimmed == [i \in 1..Len(lines) |-> Trim(lines[i])]
    IN  { Trim(StripListMarker(trimmed[i])) :
            i \in { j \in 1..Len(lines) : IsDataLine(trimmed[j]) } }

RECURSIVE Concat(_)
Concat(ss) == IF ss = <<>> THEN <<>> ELSE Head(ss) \o Concat(Tail(ss))

\* Array.prototype.join
RECURSIVE Join(_, _)
Join(ss, sep) ==
    IF ss = <<>> THEN <<>>
    ELSE IF Len(ss) = 1 THEN ss[1]
    ELSE ss[1] \o sep \o Join(Tail(ss), sep)

(***************************************************************************)
(* Maps.  A JavaScript Map keeps its keys in insertion order; set() on a   *)
(* key it holds replaces the value and keeps the key's place.              *)
(***************************************************************************)
MapHas(m, k) == \E i \in 1..Len(m) : m[i].key = k

MapGet(m, k) == m[CHOOSE i \in 1..Len(m) : m[i].key = k].val

MapSet(m, k, v) ==
    IF MapHas(m, k)
    THEN [i \in 1..Len(m) |-> IF m[i].key = k THEN [key |-> k, val |-> v] ELSE m[i]]
    ELSE Append(m, [key |-> k, val |-> v])

(***************************************************************************)
(* The world outside the program.                                          *)
(***************************************************************************)
\* Values a source's JSON path can match: strings and one non-string.
StringValue(s) == [kind |-> "string", str |-> s]
NumberValue == [kind |-> "number", str |-> <<>>]

TitleUniverse == { <<"A">>, <<"B">>, <<" ", "A">> }

ValueUniverse == { StringValue(t) : t \in TitleUniverse } \cup { NumberValue }

SeqsUpTo(S, n) == UNION { [1..k -> S] : k \in 0..n }

SourceIds == {1, 2}

NameUniverse == { <<"X">>, <<"Y">> }

Url(i) == <<"u", IF i = 1 THEN "1" ELSE "2">>

\* config.telegram after validateConfig: absent, or a token and a chat id that is
\* one id or an array of ids.  The token is "" or not; an id is 0 or not.
NoTelegram == [present |-> FALSE, botToken |-> FALSE, isArray |-> FALSE, ids |-> <<>>]

TelegramConfigs ==
    {NoTelegram}
    \cup { [present |-> TRUE, botToken |-> FALSE, isArray |-> FALSE, ids |-> <<7>>],
           [present |-> TRUE, botToken |-> TRUE, isArray |-> FALSE, ids |-> <<0>>],
           [present |-> TRUE, botToken |-> TRUE, isArray |-> FALSE, ids |-> <<7>>] }
    \cup { [present |-> TRUE, botToken |-> TRUE, isArray |-> TRUE,
            ids |-> [i \in 1..n |-> 6 + i]] : n \in 0..MaxChats }

\* The names of the sources: any two names are alike, so the first is fixed.
SourceNames == { names \in [SourceIds -> NameUniverse] : names[1] = <<"X">> }

\* The sources validateConfig lets through: each has a name, a url and a path.
\* The telegram part of the document is drawn where main first uses it, in
\* sendTelegramNotification.
ValidConfigs ==
    { [sources |-> [i \in SourceIds |-> [name |-> names[i], url |-> Url(i)]]] :
        names \in SourceNames }

NoConfig == [sources |-> <<>>]

\* config.json: absent, not JSON, JSON the schema rejects, or a valid document.
\* A document the schema rejects has its sources and breaks the schema elsewhere.
ConfigFiles ==
    { [status |-> st, content |-> NoConfig] : st \in {"missing", "badjson"} }
    \cup { [status |-> st, content |-> c] :
             st \in {"badschema", "valid"}, c \in ValidConfigs }

\* drama-list.md before the first run: absent, unreadable, or some text.
InitialLedgers ==
    { [exists |-> FALSE, readable |-> TRUE, text |-> <<>>],
      [exists |-> TRUE, readable |-> FALSE, text |-> <<"A">>],
      [exists |-> TRUE, readable |-> TRUE,
       text |-> <<"#", " ", "L", NL, "-", " ", "A">>] }

\* What JSONPath gives for a response: an array of matches, or not an array.
ArrayOf(values) == [isArray |-> TRUE, values |-> values]
NotAnArray == [isArray |-> FALSE, values |-> <<>>]

MatchResults ==
    { ArrayOf(vs) : vs \in SeqsUpTo(ValueUniverse, MaxTitles) } \cup { NotAnArray }

\* A result that is not an array counts as one match.
Weight(m) == IF m.isArray THEN Len(m.values) ELSE 1

\* What the sources serve: at most MaxTitles matches over all sources.
Upstreams ==
    { u \in [SourceIds -> MatchResults] : Weight(u[1]) + Weight(u[2]) <= MaxTitles }

(***************************************************************************)
(* getTimestamp: DD.MM.YYYY HH:MM of the local clock, zero-padded.         *)
(***************************************************************************)
DigitChar(d) == <<"0", "1", "2", "3", "4", "5", "6", "7", "8", "9">>[d + 1]

RECURSIVE ToDigits(_)
ToDigits(n) == IF n < 10 THEN <<DigitChar(n)>> ELSE Append(ToDigits(n \div 10), DigitChar(n % 10))

\* String(n).padStart(2, '0')
PadStart2(n) == IF n < 10 THEN <<"0">> \o ToDigits(n) ELSE ToDigits(n)

\* The clock of the machine; getMonth() counts from 0.
Now == [date |-> 5, month |-> 10, fullYear |-> 2026, hours |-> 9, minutes |-> 7]

getTimestamp ==
    PadStart2(Now.date) \o <<".">> \o PadStart2(Now.month + 1) \o <<".">>
        \o ToDigits(Now.fullYear) \o <<" ">> \o PadStart2(Now.hours) \o <<":">>
        \o PadStart2(Now.minutes)

(***************************************************************************)
(* fetchDramasFromSource: what one fetch returns.  kind is how the request *)
(* ended; body is what the JSON path matches in the response.              *)
(***************************************************************************)
FetchKinds == {"ok", "transport", "http", "badjson", "extract"}

\* titles with no filter on the type: every match is kept.
StringsUnfiltered(values) == [i \in 1..Len(values) |-> values[i].str]

StringsOf(values) ==
    LET strs == SelectSeq(values, LAMBDA v : v.kind = "string")
    IN  [i \in 1..Len(strs) |-> strs[i].str]

\* Array.isArray(titles) ? titles.filter(...) : []
ExtractTitles(matches) ==
    IF matches.isArray THEN StringsOf(matches.values) ELSE <<>>

\* A fetch whose try block ends before response.json(): a body that is not JSON
\* rejects the promise.
fetchWithoutJsonCatch(source, kind, body) ==
    IF kind = "ok"
    THEN [source |-> source, titles |-> ExtractTitles(body), thrown |-> FALSE]
    ELSE [source |-> source, titles |-> <<>>, thrown |-> (kind = "badjson")]

\* thrown is TRUE when the promise rejects instead of resolving.
fetchDramasFromSource(source, kind, body) ==
    IF kind = "ok"
    THEN [source |-> source, titles |-> ExtractTitles(body), thrown |-> FALSE]
    ELSE [source |-> source, titles |-> <<>>, thrown |-> FALSE]

(***************************************************************************)
(* The loop of main over the results: one source's step, and the loop.     *)
(***************************************************************************)
\* result.source.name ?? result.source.url: validateConfig demands a name.
SourceKey(source) == source.name

\* A filter that keeps every title, known or not.
NewTitlesUnfiltered(titles, existing) == titles

\* result.titles.filter((title) => !existingDramas.has(title))
NewTitles(titles, existing) == SelectSeq(titles, LAMBDA t : t \notin existing)

\* The step without its if: the key is set whatever the length of newTitles.
DiffStepKeepEmpty(acc, result, existing) ==
    LET newTitles == NewTitles(result.titles, existing)
    IN  [map |-> MapSet(acc.map, SourceKey(result.source), newTitles),
         total |-> acc.total + Len(newTitles)]

\* if (newTitles.length > 0) { newDramasBySource.set(...); totalNewDramas += ... }
DiffStep(acc, result, existing) ==
    LET newTitles == NewTitles(result.titles, existing)
    IN  IF Len(newTitles) > 0
        THEN [map |-> MapSet(acc.map, SourceKey(result.source), newTitles),
              total |-> acc.total + Len(newTitles)]
        ELSE acc

EmptyDiff == [map |-> <<>>, total |-> 0]

RECURSIVE DiffFrom(_, _, _, _)
DiffFrom(acc, rs, existing, i) ==
    IF i > Len(rs) THEN acc
    ELSE DiffFrom(DiffStep(acc, rs[i], existing), rs, existing, i + 1)

DiffAll(rs, existing) == DiffFrom(EmptyDiff, rs, existing, 1)

(***************************************************************************)
(* appendNewDramas: the section it builds.                                 *)
(***************************************************************************)
ItemLines(dramas) == [i \in 1..Len(dramas) |-> <<"-", " ">> \o dramas[i]]

SourceBlock(entry) ==
    <<"#", "#", "#", " ">> \o entry.key \o <<NL>> \o Join(ItemLines(entry.val), <<NL>>) \o <<NL>>

NewSection(timestamp, m) ==
    <<NL, "#", "#", " ">> \o timestamp \o <<NL>>
        \o Concat([i \in 1..Len(m) |-> SourceBlock(m[i])])

(***************************************************************************)
(* sendTelegramNotification: its guard, its message, its chat ids.         *)
(***************************************************************************)
\* !botToken || !chatIds || (Array.isArray(chatIds) && chatIds.length === 0)
TelegramUsable(t) ==
    /\ t.present
    /\ t.botToken
    /\ IF t.isArray THEN Len(t.ids) > 0 ELSE t.ids[1] # 0

Bullets(dramas) == [i \in 1..Len(dramas) |-> <<"*", " ">> \o dramas[i]]

MessageBlock(entry) ==
    <<"<", "b", ">">> \o entry.key \o <<":", "<", "/", "b", ">", NL>>
        \o Join(Bullets(entry.val), <<NL>>) \o <<NL, NL>>

NotificationMessage(m) ==
    <<"<", "b", ">", "!", "<", "/", "b", ">", NL, NL>>
        \o Concat([i \in 1..Len(m) |-> MessageBlock(m[i])])

(***************************************************************************)
(* State.                                                                  *)
(***************************************************************************)
VARIABLES
    configFile,         \* config.json: its status and, when valid, its content
    upstream,           \* per source, what its JSON path matches at the endpoint
    ledger,             \* drama-list.md: exists, readable, text
    run,                \* number of the run of the program
    pc,                 \* where main is
    config,             \* const config of main, its sources
    telegram,           \* config.telegram, once the notifier has been handed it
    existingDramas,     \* const existingDramas of main
    fetchState,         \* per source: "idle", "pending" or "settled"
    fetchCount,         \* per source: calls of fetch in this run
    fetchFailed,        \* per source: its fetch ended in an error
    results,            \* per source: the FetchedDramas it resolved with
    diffIndex,          \* index of the result the loop of main is at
    newDramasBySource,  \* Map of main
    totalNewDramas,     \* counter of main
    existingContent,    \* const existingContent of appendNewDramas
    writeCalls,         \* calls of Bun.write in this run
    written,            \* Bun.write has resolved in this run
    notifyCalls,        \* calls of sendTelegramNotification in this run
    chatIndex,          \* index of the chat id the loop of the notifier is at
    sends,              \* the sendMessage calls of this run, with their outcome
    failCause,          \* what rejected main: "none" while nothing has
    exitCode,           \* exit status of the process, -1 while it runs
    startLedger,        \* ledger when this run started
    prevResults,        \* results of the previous run
    prevExit            \* exit status of the previous run, -1 in the first

vars ==
    << configFile, upstream, ledger, run, pc, config, telegram, existingDramas, fetchState,
       fetchCount, fetchFailed, results, diffIndex, newDramasBySource,
       totalNewDramas, existingContent, writeCalls, written, notifyCalls,
       chatIndex, sends, failCause, exitCode, startLedger, prevResults, prevExit >>

envVars == << configFile, upstream >>

historyVars == << startLedger, prevResults, prevExit >>

NoResult == [source |-> [name |-> <<>>, url |-> <<>>], titles |-> <<>>, thrown |-> FALSE]

NoResults == [i \in SourceIds |-> NoResult]

\* The locals of main and of what it calls, before main has set them.
RunStart ==
    /\ pc = "start"
    /\ config = NoConfig
    /\ telegram = NoTelegram
    /\ existingDramas = {}
    /\ fetchState = [i \in SourceIds |-> "idle"]
    /\ fetchCount = [i \in SourceIds |-> 0]
    /\ fetchFailed = [i \in SourceIds |-> FALSE]
    /\ results = NoResults
    /\ diffIndex = 1
    /\ newDramasBySource = <<>>
    /\ totalNewDramas = 0
    /\ existingContent = <<>>
    /\ writeCalls = 0
    /\ written = FALSE
    /\ notifyCalls = 0
    /\ chatIndex = 1
    /\ sends = <<>>
    /\ failCause = "none"
    /\ exitCode = -1

Init ==
    /\ configFile \in ConfigFiles
    /\ upstream \in Upstreams
    /\ ledger \in InitialLedgers
    /\ run = 1
    /\ RunStart
    /\ startLedger = ledger
    /\ prevResults = NoResults
    /\ prevExit = -1

\* main rejects: the rest of main is skipped, the catch handler is next.
Reject(cause) ==
    /\ pc' = "rejected"
    /\ failCause' = cause

(***************************************************************************)
(* loadConfig, called by main.                                             *)
(***************************************************************************)
\* return config without validateConfig: any JSON document is taken.
ConfigErrorUnvalidated(file) ==
    CASE file.status = "missing" -> "configMissing"
      [] file.status = "badjson" -> "configParse"
      [] OTHER -> "none"

\* What loadConfig throws for a file: exists() is false, json() throws, or
\* validateConfig throws; "none" when it returns the document.
ConfigError(file) ==
    CASE file.status = "missing" -> "configMissing"
      [] file.status = "badjson" -> "configParse"
      [] file.status = "badschema" -> "configInvalid"
      [] OTHER -> "none"

loadConfig ==
    /\ pc = "start"
    /\ \/ /\ ConfigError(configFile) = "configMissing"
          /\ Reject("configMissing")
          /\ UNCHANGED config
       \/ /\ ConfigError(configFile) = "configParse"
          /\ Reject("configParse")
          /\ UNCHANGED config
       \/ /\ ConfigError(configFile) = "configInvalid"
          /\ Reject("configInvalid")
          /\ UNCHANGED config
       \/ /\ ConfigError(configFile) = "none"
          /\ config' = configFile.content
          /\ pc' = "configLoaded"
          /\ UNCHANGED failCause
    /\ UNCHANGED << envVars, historyVars, ledger, run, telegram, existingDramas,
                    fetchState, fetchCount, fetchFailed, results, diffIndex,
                    newDramasBySource, totalNewDramas, existingContent, writeCalls,
                    written, notifyCalls, chatIndex, sends, exitCode >>

(***************************************************************************)
(* getExistingDramas, called by main.  file.text() of a file that exists   *)
(* and cannot be read rejects, and nothing catches it.                     *)
(***************************************************************************)
getExistingDramas ==
    /\ pc = "configLoaded"
    /\ \/ /\ ~ledger.exists
          /\ existingDramas' = {}
          /\ pc' = "ledgerRead"
          /\ UNCHANGED failCause
       \/ /\ ledger.exists
          /\ ledger.readable
          /\ existingDramas' = ParseLedger(ledger.text)
          /\ pc' = "ledgerRead"
          /\ UNCHANGED failCause
       \/ /\ ledger.exists
          /\ ~ledger.readable
          /\ Reject("ledgerRead")
          /\ UNCHANGED existingDramas
    /\ UNCHANGED << envVars, historyVars, ledger, run, config, telegram, fetchState,
                    fetchCount, fetchFailed, results, diffIndex, newDramasBySource,
                    totalNewDramas, existingContent, writeCalls, written,
                    notifyCalls, chatIndex, sends, exitCode >>

(***************************************************************************)
(* sources.map(fetchDramasFromSource): every fetch is issued, none awaited.*)
(***************************************************************************)
IssueFetches ==
    /\ pc = "ledgerRead"
    /\ fetchState' = [i \in SourceIds |-> "pending"]
    /\ fetchCount' = [i \in SourceIds |-> fetchCount[i] + 1]
    /\ pc' = "fetching"
    /\ UNCHANGED << envVars, historyVars, ledger, run, config, telegram, existingDramas,
                    fetchFailed, results, diffIndex, newDramasBySource,
                    totalNewDramas, existingContent, writeCalls, written,
                    notifyCalls, chatIndex, sends, failCause, exitCode >>

\* One fetch settles, in any order with the others.
SettleFetch(i) ==
    /\ pc = "fetching"
    /\ fetchState[i] = "pending"
    /\ \E kind \in FetchKinds :
          /\ results' = [results EXCEPT
                ![i] = fetchDramasFromSource(config.sources[i], kind, upstream[i])]
          /\ fetchFailed' = [fetchFailed EXCEPT ![i] = (kind # "ok")]
    /\ fetchState' = [fetchState EXCEPT ![i] = "settled"]
    /\ UNCHANGED << envVars, historyVars, ledger, run, pc, config, telegram, existingDramas,
                    fetchCount, diffIndex, newDramasBySource, totalNewDramas,
                    existingContent, writeCalls, written, notifyCalls, chatIndex,
                    sends, failCause, exitCode >>

\* Promise.race in place of Promise.all: the first fetch to settle resumes main.
FirstSettled(state) == \E i \in SourceIds : state[i] = "settled"

\* Promise.all(fetchPromises) resolves when every promise has.
AllSettled(state) == \A i \in SourceIds : state[i] = "settled"

\* await Promise.all: resolves once every fetch has, rejects if one rejected.
AwaitAll ==
    /\ pc = "fetching"
    /\ AllSettled(fetchState)
    /\ IF \E i \in SourceIds : results[i].thrown
       THEN Reject("fetch")
       ELSE pc' = "diffing" /\ UNCHANGED failCause
    /\ UNCHANGED << envVars, historyVars, ledger, run, config, telegram, existingDramas,
                    fetchState, fetchCount, fetchFailed, results, diffIndex,
                    newDramasBySource, totalNewDramas, existingContent, writeCalls,
                    written, notifyCalls, chatIndex, sends, exitCode >>

(***************************************************************************)
(* The loop of main over results, one result per step, and the test that   *)
(* follows it.                                                             *)
(***************************************************************************)
ResultsSeq == [i \in 1..Cardinality(SourceIds) |-> results[i]]

DiffIter ==
    /\ pc = "diffing"
    /\ diffIndex <= Len(ResultsSeq)
    /\ LET acc == DiffStep([map |-> newDramasBySource, total |-> totalNewDramas],
                           ResultsSeq[diffIndex], existingDramas)
       IN  /\ newDramasBySource' = acc.map
           /\ totalNewDramas' = acc.total
    /\ diffIndex' = diffIndex + 1
    /\ UNCHANGED << envVars, historyVars, ledger, run, pc, config, telegram, existingDramas,
                    fetchState, fetchCount, fetchFailed, results, existingContent,
                    writeCalls, written, notifyCalls, chatIndex, sends, failCause,
                    exitCode >>

\* A test that also skips the write when one title is new.
NothingNewOffByOne(total) == total <= 1

\* No test at all: appendNewDramas and the notifier are called in every run.
NothingNewNever(total) == FALSE

\* totalNewDramas === 0
NothingNew(total) == total = 0

Decide ==
    /\ pc = "diffing"
    /\ diffIndex > Len(ResultsSeq)
    /\ \/ /\ NothingNew(totalNewDramas)
          /\ pc' = "finish"
       \/ /\ ~NothingNew(totalNewDramas)
          /\ pc' = "appending"
    /\ UNCHANGED << envVars, historyVars, ledger, run, config, telegram, existingDramas,
                    fetchState, fetchCount, fetchFailed, results, diffIndex,
                    newDramasBySource, totalNewDramas, existingContent, writeCalls,
                    written, notifyCalls, chatIndex, sends, failCause, exitCode >>

\* Bun.write(DRAMA_LIST_FILE, newSection): the old text is dropped.
WriteSectionOnly(content, newSection) == newSection

\* The text appendNewDramas hands to Bun.write.
WrittenText(content, newSection) == content \o newSection

\* Bun.write inside a try that logs the error: main goes on to the notifier.
WriteFailureIgnored == pc' = "appended" /\ UNCHANGED failCause

\* await Bun.write rejects: nothing in appendNewDramas or main catches it.
WriteRejects == Reject("ledgerWrite")

(***************************************************************************)
(* appendNewDramas, called by main.  Bun.write either stores the whole     *)
(* text or rejects and leaves the file as it was.  A file that exists here *)
(* was read by getExistingDramas in the same run, so it can be read.       *)
(***************************************************************************)
appendNewDramas ==
    /\ pc = "appending"
    /\ LET content == IF ledger.exists THEN ledger.text ELSE <<>>
           newSection == NewSection(getTimestamp, newDramasBySource)
       IN  /\ existingContent' = content
           /\ writeCalls' = writeCalls + 1
           /\ \/ /\ ledger' = [exists |-> TRUE, readable |-> TRUE,
                               text |-> WrittenText(content, newSection)]
                 /\ written' = TRUE
                 /\ pc' = "appended"
                 /\ UNCHANGED failCause
              \/ /\ WriteRejects
                 /\ UNCHANGED << ledger, written >>
    /\ UNCHANGED << envVars, historyVars, run, config, telegram, existingDramas, fetchState,
                    fetchCount, fetchFailed, results, diffIndex, newDramasBySource,
                    totalNewDramas, notifyCalls, chatIndex, sends, exitCode >>

(***************************************************************************)
(* sendTelegramNotification, called by main: the guards, then one          *)
(* sendMessage per chat id, each in its own try.                           *)
(***************************************************************************)
\* Array.isArray(chatIds) ? chatIds : [chatIds]
ChatIds(t) == t.ids

sendTelegramNotification ==
    /\ pc = "appended"
    /\ notifyCalls' = notifyCalls + 1
    /\ \E t \in TelegramConfigs :
          /\ telegram' = t
          /\ \/ /\ ~TelegramUsable(t)
                /\ pc' = "finish"
             \/ /\ TelegramUsable(t)
                /\ pc' = "sending"
    /\ chatIndex' = 1
    /\ UNCHANGED << envVars, historyVars, ledger, run, config, existingDramas,
                    fetchState, fetchCount, fetchFailed, results, diffIndex,
                    newDramasBySource, totalNewDramas, existingContent, writeCalls,
                    written, sends, failCause, exitCode >>

\* sendMessage outside a try: a failed send rejects the notifier and main.
SendWithoutCatch(chatId, message, delivered) ==
    [chatId |-> chatId, message |-> message, delivered |-> delivered,
     thrown |-> ~delivered]

\* One pass of the loop over the chat ids: the catch keeps a failed send in.
SendOutcome(chatId, message, delivered) ==
    [chatId |-> chatId, message |-> message, delivered |-> delivered, thrown |-> FALSE]

\* A loop that stops at the first chat id whose send failed.
NextChatStopOnFailure(i, delivered) ==
    IF delivered THEN i + 1 ELSE Len(ChatIds(telegram)) + 1

\* for (const chatId of ids): the next id, whatever the send did.
NextChat(i, delivered) == i + 1

SendMessage ==
    /\ pc = "sending"
    /\ chatIndex <= Len(ChatIds(telegram))
    /\ \E delivered \in BOOLEAN :
          /\ sends' = Append(sends,
                         SendOutcome(ChatIds(telegram)[chatIndex],
                                     NotificationMessage(newDramasBySource), delivered))
          /\ chatIndex' = NextChat(chatIndex, delivered)
    /\ IF sends'[Len(sends')].thrown
       THEN Reject("notify")
       ELSE UNCHANGED << pc, failCause >>
    /\ UNCHANGED << envVars, historyVars, ledger, run, config, telegram, existingDramas,
                    fetchState, fetchCount, fetchFailed, results, diffIndex,
                    newDramasBySource, totalNewDramas, existingContent, writeCalls,
                    written, notifyCalls, exitCode >>

NotifierReturns ==
    /\ pc = "sending"
    /\ chatIndex > Len(ChatIds(telegram))
    /\ pc' = "finish"
    /\ UNCHANGED << envVars, historyVars, ledger, run, config, telegram, existingDramas,
                    fetchState, fetchCount, fetchFailed, results, diffIndex,
                    newDramasBySource, totalNewDramas, existingContent, writeCalls,
                    written, notifyCalls, chatIndex, sends, failCause, exitCode >>

(***************************************************************************)
(* The end of main: it resolves and the process ends with status 0, or it  *)
(* rejected and the catch handler waits for Enter and calls exit(1).       *)
(***************************************************************************)
MainResolves ==
    /\ pc = "finish"
    /\ pc' = "exited"
    /\ exitCode' = 0
    /\ UNCHANGED << envVars, historyVars, ledger, run, config, telegram, existingDramas,
                    fetchState, fetchCount, fetchFailed, results, diffIndex,
                    newDramasBySource, totalNewDramas, existingContent, writeCalls,
                    written, notifyCalls, chatIndex, sends, failCause >>

CatchHandler ==
    /\ pc = "rejected"
    /\ pc' = "exited"
    /\ exitCode' = 1
    /\ UNCHANGED << envVars, historyVars, ledger, run, config, telegram, existingDramas,
                    fetchState, fetchCount, fetchFailed, results, diffIndex,
                    newDramasBySource, totalNewDramas, existingContent, writeCalls,
                    written, notifyCalls, chatIndex, sends, failCause >>

(***************************************************************************)
(* The program is started again on the ledger the last run left.           *)
(***************************************************************************)
NextRun ==
    /\ pc = "exited"
    /\ run < MaxRuns
    /\ run' = run + 1
    /\ pc' = "start"
    /\ config' = NoConfig
    /\ telegram' = NoTelegram
    /\ existingDramas' = {}
    /\ fetchState' = [i \in SourceIds |-> "idle"]
    /\ fetchCount' = [i \in SourceIds |-> 0]
    /\ fetchFailed' = [i \in SourceIds |-> FALSE]
    /\ results' = NoResults
    /\ diffIndex' = 1
    /\ newDramasBySource' = <<>>
    /\ totalNewDramas' = 0
    /\ existingContent' = <<>>
    /\ writeCalls' = 0
    /\ written' = FALSE
    /\ notifyCalls' = 0
    /\ chatIndex' = 1
    /\ sends' = <<>>
    /\ failCause' = "none"
    /\ exitCode' = -1
    /\ startLedger' = ledger
    /\ prevResults' = results
    /\ prevExit' = exitCode
    /\ UNCHANGED << envVars, ledger >>

Next ==
    \/ loadConfig
    \/ getExistingDramas
    \/ IssueFetches
    \/ \E i \in SourceIds : SettleFetch(i)
    \/ AwaitAll
    \/ DiffIter
    \/ Decide
    \/ appendNewDramas
    \/ sendTelegramNotification
    \/ SendMessage
    \/ NotifierReturns
    \/ MainResolves
    \/ CatchHandler
    \/ NextRun

Spec == Init /\ [][Next]_vars

(***************************************************************************)
(* Vocabulary of the properties.                                           *)
(***************************************************************************)
IsPrefix(p, t) == Len(p) <= Len(t) /\ SubSeq(t, 1, Len(p)) = p

\* sub keeps some of the elements of full, in the order of full.
RECURSIVE IsSubsequence(_, _)
IsSubsequence(sub, full) ==
    IF sub = <<>> THEN TRUE
    ELSE IF full = <<>> THEN FALSE
    ELSE IF Head(sub) = Head(full) THEN IsSubsequence(Tail(sub), Tail(full))
    ELSE IsSubsequence(sub, Tail(full))

Range(f) == { f[i] : i \in DOMAIN f }

\* UTF-16 code unit of the characters the model uses.
CharCode(c) ==
    CASE c = NL -> 10 [] c = " " -> 32 [] c = "#" -> 35 [] c = "-" -> 45
      [] c = "A" -> 65 [] c = "B" -> 66 [] OTHER -> 127

RECURSIVE LexLeq(_, _)
LexLeq(a, b) ==
    IF a = <<>> THEN TRUE
    ELSE IF b = <<>> THEN FALSE
    ELSE IF Head(a) = Head(b) THEN LexLeq(Tail(a), Tail(b))
    ELSE CharCode(Head(a)) < CharCode(Head(b))

IsSortedAscending(ts) == \A i \in 1..(Len(ts) - 1) : LexLeq(ts[i], ts[i + 1])

\* Every fetch of the run has settled and main has gone past Promise.all.
FetchedAll ==
    /\ \A i \in SourceIds : fetchState[i] = "settled"
    /\ pc # "fetching"

\* The loop of main over the results is over.
DiffDone == FetchedAll /\ diffIndex > Len(ResultsSeq)

\* Some source returned a title the ledger did not know when the run began.
HasNew == \E i \in SourceIds : \E k \in 1..Len(results[i].titles) :
              results[i].titles[k] \notin existingDramas

ItemsOf(m) == UNION { Range(m[i].val) : i \in 1..Len(m) }

DistinctNames ==
    \A i, j \in DOMAIN config.sources :
        i # j => config.sources[i].name # config.sources[j].name

SameTitlesAsPreviousRun ==
    \A i \in SourceIds : results[i].titles = prevResults[i].titles

\* What the map holds for a source: the value under its key, or nothing.
RecordedFor(source, m) ==
    IF MapHas(m, SourceKey(source)) THEN MapGet(m, SourceKey(source)) ELSE <<>>

(***************************************************************************)
(* C1.  Idempotence across runs: when a run has completed and the next run *)
(* fetches the same titles from the same sources, the next run finds       *)
(* nothing new, writes nothing and notifies nobody.  Stated for sources    *)
(* with different names, so that no two sources share a key of the map.    *)
(***************************************************************************)
C1_IdempotentRerun ==
    (run > 1 /\ prevExit = 0 /\ DiffDone /\ DistinctNames /\ SameTitlesAsPreviousRun)
        => /\ totalNewDramas = 0
           /\ newDramasBySource = <<>>
           /\ writeCalls = 0
           /\ notifyCalls = 0
           /\ ledger = startLedger

C3_LedgerRoundTrip ==
    (pc = "appended") =>
        ParseLedger(ledger.text)
            = ParseLedger(existingContent) \cup ItemsOf(newDramasBySource)

(***************************************************************************)
(* C4.  Append-only ledger: every step of a run leaves the ledger as it is *)
(* or puts one new section behind its text, so the old text stays a prefix *)
(* of the new, the file never disappears, and the known set parsed from    *)
(* the ledger loses no element; a run changes the ledger at most once.     *)
(***************************************************************************)
C4_AppendOnlyLedger ==
    [][ledger' # ledger =>
          /\ IsPrefix(ledger.text, ledger'.text)
          /\ ledger'.exists
          /\ ledger'.text = ledger.text \o NewSection(getTimestamp, newDramasBySource)
          /\ ParseLedger(ledger.text) \subseteq ParseLedger(ledger'.text)
          /\ ledger = startLedger]_vars

\* A second run has appended a section after the section of the first run.
C4_Witness ==
    /\ run = 2
    /\ written
    /\ startLedger.exists
    /\ IsPrefix(startLedger.text, ledger.text)
    /\ Len(ledger.text) > Len(startLedger.text)
    /\ Len(startLedger.text) > Len(<<"#", " ", "L", NL, "-", " ", "A">>)

(***************************************************************************)
(* C5.  Write only when something is new, as claimed: a run that found     *)
(* nothing new leaves the ledger alone and calls no notifier; a run that   *)
(* found something new makes one ledger write and one notifier call.       *)
(***************************************************************************)
C5_WriteAndNotifyOnce ==
    (pc = "exited") =>
        /\ ~HasNew => (ledger = startLedger /\ writeCalls = 0 /\ notifyCalls = 0)
        /\ HasNew => (writeCalls = 1 /\ notifyCalls = 1)

(***************************************************************************)
(* C5, amended.  A run that found nothing new leaves the ledger alone and  *)
(* calls no notifier; a run that found something new makes one ledger      *)
(* write and, if the write succeeds, one notifier call; if the write fails *)
(* the ledger is left alone and no notifier is called.                     *)
(***************************************************************************)
C5_WriteOnceNotifyIfWritten ==
    (pc = "exited") =>
        /\ ~HasNew => (ledger = startLedger /\ writeCalls = 0 /\ notifyCalls = 0)
        /\ HasNew =>
              /\ writeCalls = 1
              /\ written => (notifyCalls = 1 /\ ledger # startLedger)
              /\ ~written => (notifyCalls = 0 /\ ledger = startLedger)

\* A run with a new title has written once and called the notifier once.
C5_Witness ==
    /\ pc = "exited"
    /\ HasNew
    /\ written
    /\ writeCalls = 1
    /\ notifyCalls = 1

(***************************************************************************)
(* C6.  Source isolation: had the fetch of a source A that succeeded       *)
(* failed instead, every other source B would have the same fetch result   *)
(* and the same new items recorded under its key, in the map and so in the *)
(* section.  The other run is computed from the same known set and the     *)
(* same results, A's titles emptied.                                       *)
(***************************************************************************)
WithFailedFetch(rs, a) == [rs EXCEPT ![a].titles = <<>>]

\* The new items of source i, if the map of the run holds them under its key.
OwnItemsRecorded(i, rs, existing) ==
    LET own == NewTitles(rs[i].titles, existing)
    IN  IF RecordedFor(rs[i].source, DiffAll(rs, existing).map) = own
        THEN own
        ELSE <<>>

C6_SourceIsolation ==
    (pc = "diffing" /\ DiffDone) =>
        /\ newDramasBySource = DiffAll(ResultsSeq, existingDramas).map
        /\ \A b \in SourceIds :
              results[b].titles
                  = IF fetchFailed[b] THEN <<>> ELSE ExtractTitles(upstream[b])
        /\ \A a, b \in SourceIds :
              (a # b /\ ~fetchFailed[a]) =>
                  OwnItemsRecorded(b, ResultsSeq, existingDramas)
                      = OwnItemsRecorded(b, WithFailedFetch(ResultsSeq, a),
                                         existingDramas)

(***************************************************************************)
(* C7.  Per-source failures are never fatal, as claimed: a fetch that ends *)
(* in an error resolves with empty titles and rejects nothing, and a run   *)
(* in which a fetch failed ends with exit status 0, its new items written. *)
(***************************************************************************)
FailedFetchesResolveEmpty ==
    /\ \A i \in SourceIds :
          /\ ~results[i].thrown
          /\ fetchFailed[i] => results[i].titles = <<>>
    /\ failCause # "fetch"

SomeFetchFailed == \E i \in SourceIds : fetchFailed[i]

C7_FetchFailureNeverFatal ==
    /\ FailedFetchesResolveEmpty
    /\ (pc = "exited" /\ SomeFetchFailed) =>
          /\ exitCode = 0
          /\ DiffDone
          /\ HasNew => written

(***************************************************************************)
(* C7, amended.  A fetch that ends in an error resolves with empty titles  *)
(* and rejects nothing; a run in which a fetch failed goes through the     *)
(* diff and ends with exit status 0, its new items written, unless the     *)
(* ledger write itself fails, which alone makes it end with status 1.      *)
(***************************************************************************)
C7_FetchFailureFatalOnlyByWrite ==
    /\ FailedFetchesResolveEmpty
    /\ (pc = "exited" /\ SomeFetchFailed) =>
          /\ DiffDone
          /\ failCause \in {"none", "ledgerWrite"}
          /\ failCause = "none" => (exitCode = 0 /\ (HasNew => written))
          /\ failCause = "ledgerWrite" => (exitCode = 1 /\ HasNew /\ ~written)

\* The first source failed, the second brought a new title, the run wrote it
\* and ended with status 0.
C7_Witness ==
    /\ pc = "exited"
    /\ fetchFailed[1]
    /\ ~fetchFailed[2]
    /\ HasNew
    /\ written
    /\ exitCode = 0

(***************************************************************************)
(* C8.  Sorted listing: the items a written section lists under a source   *)
(* header, which are the titles of the map in the order of the map, are in *)
(* ascending lexicographic order.  Stated for titles made of letters, on   *)
(* whose order every comparison agrees.                                    *)
(***************************************************************************)
IsLetters(t) == \A k \in 1..Len(t) : t[k] \in {"A", "B"}

C8_SortedListing ==
    (pc = "appended") =>
        /\ ledger.text = existingContent \o NewSection(getTimestamp, newDramasBySource)
        /\ \A e \in Range(newDramasBySource) :
              (\A t \in Range(e.val) : IsLetters(t)) => IsSortedAscending(e.val)

(***************************************************************************)
(* C9.  Ledger read failure is recovered: a run whose ledger file is       *)
(* missing or cannot be read goes on with an empty known set to fetching   *)
(* and diffing, and the ledger read never makes it fail.                   *)
(***************************************************************************)
C9_LedgerReadRecovered ==
    /\ failCause # "ledgerRead"
    /\ (pc = "exited" /\ configFile.status = "valid"
            /\ (~startLedger.exists \/ ~startLedger.readable)) =>
          /\ existingDramas = {}
          /\ DiffDone

(***************************************************************************)
(* C10.  Persistence precedes notification and does not depend on it: the  *)
(* notifier is called and a send is tried only after the ledger write has  *)
(* resolved; whatever the sends do, the ledger holds what the run wrote,   *)
(* main is not rejected and the run ends with exit status 0.               *)
(***************************************************************************)
C10_PersistBeforeNotify ==
    (notifyCalls > 0 \/ sends # <<>>) =>
        /\ written
        /\ writeCalls = 1
        /\ ledger.text = existingContent \o NewSection(getTimestamp, newDramasBySource)
        /\ failCause = "none"
        /\ pc \in {"sending", "finish", "exited"}
        /\ pc = "exited" => exitCode = 0

\* Every send of the run failed and the run ended with status 0.
C10_Witness ==
    /\ pc = "exited"
    /\ Len(sends) = MaxChats
    /\ \A k \in 1..Len(sends) : ~sends[k].delivered
    /\ written
    /\ exitCode = 0

(***************************************************************************)
(* C11.  Ledger write failure is fatal: once Bun.write has rejected, main  *)
(* is rejected with that error, the ledger is as the run found it, no      *)
(* notifier is called, no send is tried, and the process ends with exit    *)
(* status 1.                                                               *)
(***************************************************************************)
WriteFailed == writeCalls > 0 /\ ~written

C11_WriteFailureFatal ==
    WriteFailed =>
        /\ failCause = "ledgerWrite"
        /\ pc \in {"rejected", "exited"}
        /\ ledger = startLedger
        /\ notifyCalls = 0
        /\ sends = <<>>
        /\ pc = "exited" => exitCode = 1

\* A run whose write failed has ended with status 1.
C11_Witness ==
    /\ pc = "exited"
    /\ WriteFailed
    /\ failCause = "ledgerWrite"
    /\ exitCode = 1

(***************************************************************************)
(* C12.  Notification destinations are independent: while the notifier     *)
(* sends, the chat ids tried so far are the first configured ids, each     *)
(* once and in configured order; when it has returned, every configured id *)
(* has been tried once, whichever sends failed.                            *)
(***************************************************************************)
TriedChatIds == [k \in 1..Len(sends) |-> sends[k].chatId]

C12_EveryChatTriedOnce ==
    /\ pc = "sending" =>
          /\ chatIndex = Len(sends) + 1
          /\ TriedChatIds = SubSeq(ChatIds(telegram), 1, Len(sends))
    /\ (pc \in {"finish", "exited"} /\ notifyCalls > 0 /\ TelegramUsable(telegram)) =>
          TriedChatIds = ChatIds(telegram)
    /\ (notifyCalls > 0 /\ ~TelegramUsable(telegram)) => sends = <<>>

\* The first send failed and the last configured chat id was still tried.
C12_Witness ==
    /\ pc = "exited"
    /\ Len(ChatIds(telegram)) = MaxChats
    /\ Len(sends) = MaxChats
    /\ ~sends[1].delivered
    /\ sends[MaxChats].delivered
    /\ sends[MaxChats].chatId = ChatIds(telegram)[MaxChats]

(***************************************************************************)
(* C13.  Configuration failure is fatal and free of side effects: when     *)
(* config.json is missing, is not JSON or fails the schema, the run never  *)
(* gets past loadConfig: the ledger is not read, no source is fetched, the *)
(* ledger is unchanged, no notifier is called, and the process ends with   *)
(* exit status 1.                                                          *)
(***************************************************************************)
C13_ConfigFailureFatal ==
    (configFile.status # "valid") =>
        /\ pc \in {"start", "rejected", "exited"}
        /\ pc # "start" => failCause \in {"configMissing", "configParse", "configInvalid"}
        /\ config = NoConfig
        /\ existingDramas = {}
        /\ \A i \in SourceIds : fetchCount[i] = 0 /\ fetchState[i] = "idle"
        /\ ledger = startLedger
        /\ writeCalls = 0
        /\ notifyCalls = 0
        /\ sends = <<>>
        /\ pc = "exited" => exitCode = 1

\* A run on a document the schema rejects has ended with status 1, while the
\* sources had something to serve.
C13_Witness ==
    /\ pc = "exited"
    /\ configFile.status = "badschema"
    /\ failCause = "configInvalid"
    /\ exitCode = 1
    /\ \E i \in SourceIds : upstream[i].values # <<>>

(***************************************************************************)
(* C14.  Fan-out / fan-in barrier: in every run each source is fetched     *)
(* exactly once, all fetches are issued together before any is awaited,    *)
(* and the diff, the ledger write and the notification happen only after   *)
(* every fetch has settled, in whatever order they settle.                 *)
(***************************************************************************)
PastBarrier ==
    \/ pc \in {"diffing", "appending", "appended", "sending", "finish"}
    \/ diffIndex > 1
    \/ newDramasBySource # <<>>
    \/ totalNewDramas > 0
    \/ writeCalls > 0
    \/ notifyCalls > 0

C14_FetchBarrier ==
    /\ \A i \in SourceIds : fetchCount[i] <= 1
    /\ (\E i \in SourceIds : fetchState[i] # "idle" \/ fetchCount[i] > 0) =>
          \A i \in SourceIds : fetchCount[i] = 1 /\ fetchState[i] # "idle"
    /\ PastBarrier =>
          \A i \in SourceIds : fetchCount[i] = 1 /\ fetchState[i] = "settled"

\* The second run has written its section after both of its fetches settled,
\* one of them failed, each issued once in that run.
C14_Witness ==
    /\ run = MaxRuns
    /\ pc = "appended"
    /\ written
    /\ \A i \in SourceIds : fetchCount[i] = 1 /\ fetchState[i] = "settled"
    /\ \E i \in SourceIds : fetchFailed[i]

(***************************************************************************)
(* C15.  No de-duplication across sources within a run: a title that every *)
(* one of two differently named sources returned and the known set read at *)
(* the start of the run did not hold is listed under each of them in the   *)
(* section the run appended, and the known set parsed from the ledger      *)
(* afterwards holds that title.                                            *)
(***************************************************************************)
SharedNewTitles ==
    { t \in Range(results[1].titles) :
        /\ \A i \in SourceIds : t \in Range(results[i].titles)
        /\ t \notin existingDramas }

\* The part about the section: the title is under the key of every source,
\* and the ledger ends with the section of that map.
C15_ListedUnderEverySource ==
    (pc = "appended" /\ DistinctNames) =>
        \A t \in SharedNewTitles :
            /\ \A i \in SourceIds :
                  t \in Range(RecordedFor(results[i].source, newDramasBySource))
            /\ ledger.text
                  = existingContent \o NewSection(getTimestamp, newDramasBySource)

C15_NoCrossSourceDedup ==
    (pc = "appended" /\ DistinctNames) =>
        \A t \in SharedNewTitles :
            /\ \A i \in SourceIds :
                  t \in Range(RecordedFor(results[i].source, newDramasBySource))
            /\ t \in ParseLedger(ledger.text)

(***************************************************************************)
(* C16.  Sources with nothing new are omitted, as claimed: every value of  *)
(* the map is a non-empty sequence, and a source the loop has passed whose *)
(* titles hold nothing new has no key in the map and no header in the      *)
(* section.                                                                *)
(***************************************************************************)
NothingNewFor(i) == NewTitles(results[i].titles, existingDramas) = <<>>

Keys(m) == [k \in 1..Len(m) |-> m[k].key]

HeaderMark == <<"#", "#", "#", " ">>

\* The names on the '### ' lines of a text, in their order.
Headers(text) ==
    LET hs == SelectSeq(SplitLines(text), LAMBDA l : StartsWith(l, HeaderMark))
    IN  [k \in 1..Len(hs) |-> SubSeq(hs[k], Len(HeaderMark) + 1, Len(hs[k]))]

C16_NothingNewNoKey ==
    /\ \A e \in Range(newDramasBySource) : e.val # <<>>
    /\ (pc \in {"diffing", "appending", "appended"}) =>
          \A i \in 1..(diffIndex - 1) :
              NothingNewFor(i) =>
                  ~MapHas(newDramasBySource, SourceKey(results[i].source))
    /\ (pc = "appended") =>
          \A i \in SourceIds :
              NothingNewFor(i) =>
                  SourceKey(results[i].source)
                      \notin Range(Headers(NewSection(getTimestamp, newDramasBySource)))

(***************************************************************************)
(* C16, amended.  Every value of the map is a non-empty sequence; every    *)
(* key of the map is the key of a source the loop has passed that has      *)
(* something new, so a source with nothing new puts no key in the map; and *)
(* the headers of the appended section are the keys of the map.  The name  *)
(* of a source with nothing new is a key only when another source of that  *)
(* name has something new.                                                 *)
(***************************************************************************)
C16_OnlyContributorsHaveKeys ==
    /\ \A e \in Range(newDramasBySource) : e.val # <<>>
    /\ (pc \in {"diffing", "appending", "appended"}) =>
          \A e \in Range(newDramasBySource) :
              \E i \in 1..(diffIndex - 1) :
                  /\ SourceKey(results[i].source) = e.key
                  /\ ~NothingNewFor(i)
    /\ (pc = "appended") =>
          /\ ledger.text = existingContent \o NewSection(getTimestamp, newDramasBySource)
          /\ Headers(NewSection(getTimestamp, newDramasBySource)) = Keys(newDramasBySource)

\* A section is written for two differently named sources of which the second
\* returned one title, a known one: the map and the section have the first only.
C16_Witness ==
    /\ pc = "appended"
    /\ DistinctNames
    /\ results[2].titles # <<>>
    /\ NothingNewFor(2)
    /\ ~NothingNewFor(1)
    /\ Keys(newDramasBySource) = <<SourceKey(results[1].source)>>
    /\ Headers(NewSection(getTimestamp, newDramasBySource)) = <<SourceKey(results[1].source)>>

(***************************************************************************)
(* C17.  No new item is lost: once a run has written its section, every    *)
(* title a source returned that the known set read at the start of the run *)
(* did not hold is an item of the section, and the count of new items the  *)
(* run reports is the number of item lines it wrote, also when two sources *)
(* have the same name.                                                     *)
(***************************************************************************)
RECURSIVE ItemCount(_)
ItemCount(m) == IF m = <<>> THEN 0 ELSE Len(Head(m).val) + ItemCount(Tail(m))

ItemMark == <<"-", " ">>

\* The '- ' lines of a text.
ItemLinesOf(text) == SelectSeq(SplitLines(text), LAMBDA l : StartsWith(l, ItemMark))

C17_NoNewItemLost ==
    (pc = "appended") =>
        LET section == NewSection(getTimestamp, newDramasBySource)
        IN  /\ ledger.text = existingContent \o section
            /\ \A i \in SourceIds : \A t \in Range(results[i].titles) :
                  t \notin existingDramas => ItemMark \o t \in Range(ItemLinesOf(section))
            /\ totalNewDramas = Len(ItemLinesOf(section))
            /\ totalNewDramas = ItemCount(newDramasBySource)

(***************************************************************************)
(* C18.  No empty section is ever written: the counter of new items is     *)
(* zero exactly when the map is empty, appendNewDramas is never called     *)
(* with an empty map, and the section a run writes has at least one source *)
(* header, each header followed by at least one item line.                 *)
(***************************************************************************)
WellFormedSection(section) ==
    LET ls == SplitLines(section)
    IN  /\ \E k \in 1..Len(ls) : StartsWith(ls[k], HeaderMark)
        /\ \A k \in 1..Len(ls) :
              StartsWith(ls[k], HeaderMark) =>
                  k < Len(ls) /\ StartsWith(ls[k + 1], ItemMark)

C18_NoEmptySection ==
    /\ (totalNewDramas = 0) <=> (newDramasBySource = <<>>)
    /\ (pc = "appending" \/ writeCalls > 0) =>
          /\ newDramasBySource # <<>>
          /\ \A e \in Range(newDramasBySource) : e.val # <<>>
    /\ (pc = "appended") =>
          /\ ledger.text = existingContent \o NewSection(getTimestamp, newDramasBySource)
          /\ WellFormedSection(NewSection(getTimestamp, newDramasBySource))

\* The second run has written a section with one header and one item line
\* behind the section of the first run.
C18_Witness ==
    /\ run = MaxRuns
    /\ pc = "appended"
    /\ ledger.text # startLedger.text
    /\ Len(Headers(startLedger.text)) = 1
    /\ Len(Headers(ledger.text)) = 2
    /\ totalNewDramas = 1
    /\ Len(newDramasBySource) = 1

(***************************************************************************)
(* C19.  Fetched titles are strings only: the titles of a settled fetch    *)
(* are a sequence of strings; when the fetch ended without an error they   *)
(* are the string matches of the path, in match order, every other match   *)
(* dropped, and empty when the match result is not an array or has no      *)
(* match; when it ended in an error they are empty.                        *)
(***************************************************************************)
RECURSIVE StringMatches(_)
StringMatches(values) ==
    IF values = <<>> THEN <<>>
    ELSE IF Head(values).kind = "string"
         THEN <<Head(values).str>> \o StringMatches(Tail(values))
         ELSE StringMatches(Tail(values))

C19_TitlesAreStringMatches ==
    \A i \in SourceIds :
        /\ DOMAIN results[i].titles = 1..Len(results[i].titles)
        /\ \A t \in Range(results[i].titles) : t \in TitleUniverse
        /\ (fetchState[i] = "settled") =>
              results[i].titles
                  = IF fetchFailed[i] \/ ~upstream[i].isArray
                    THEN <<>>
                    ELSE StringMatches(upstream[i].values)

\* A response whose path matches a string and then a number has settled with
\* the string alone.
C19_Witness ==
    \E i \in SourceIds :
        /\ fetchState[i] = "settled"
        /\ ~fetchFailed[i]
        /\ Len(upstream[i].values) = 2
        /\ upstream[i].values[1].kind = "string"
        /\ upstream[i].values[2] = NumberValue
        /\ results[i].titles = <<upstream[i].values[1].str>>

=============================================================================
